---------------------------- MODULE Spec2Model ----------------------------
(***************************************************************************)
(* Model of Caliper's trace buffer (src/services/trace/TraceBufferChunk.cpp)*)
(* A chain of fixed-capacity chunks accumulates encoded snapshot records    *)
(* (fits / save_snapshot / append / reset) and flush decodes them, writes   *)
(* not-yet-written context nodes and the snapshot records to the sink, and  *)
(* releases the chain.                                                      *)
(*                                                                          *)
(* Representation.  A 64-bit unsigned value (cali_id_t, uint64_t) is the    *)
(* triple <<hi, mid, lo>> = hi * 2^56 + mid * 2^28 + lo with lo, mid < 2^28 *)
(* and hi < 2^8, because TLC's integers are 32 bits wide.  A              *)
(* chunk's byte array m_data is kept as the sequence of the bytes of        *)
(* [0, high-water mark); every byte above it is zero (reset's memset) or    *)
(* never written.                                                           *)
(***************************************************************************)
EXTENDS Integers, Sequences, FiniteSets, TLC

\* ------------------------------------------------------------------ bounds
MaxChunks == 3
MaxSaves == 2
MaxFlushes == 2
MaxRounds == 2
MaxCalls == 2

\* #define SNAP_MAX 80
SNAP_MAX == 80

\* ------------------------------------------------------- 64-bit values
Limb == 2^28

U(n) == <<0, 0, n>>

MaxU64 == <<255, Limb - 1, Limb - 1>>

Min(a, b) == IF a < b THEN a ELSE b

Max(a, b) == IF a > b THEN a ELSE b

\* static_cast<int>(uint64_t): the low 32 bits, two's complement
ToInt(v) ==
    IF (v[2] % 16) >= 8 THEN ((v[2] % 16) - 16) * Limb + v[3] ELSE (v[2] % 16) * Limb + v[3]

\* bind a value to a name, evaluating it first: Let(e, LAMBDA x : body)
Let(v, Body(_)) == CHOOSE r \in {Body(x) : x \in {v}} : TRUE

\* -------------------------------------------------------------- varint
\* digit i (0-based) of the base-128 expansion of a 64-bit value
Digit(v, i) ==
    IF i < 4 THEN (v[3] \div (128 ^ i)) % 128
    ELSE IF i < 8 THEN (v[2] \div (128 ^ (i - 4))) % 128
    ELSE IF i = 8 THEN v[1] % 128
    ELSE v[1] \div 128

\* number of bytes vlenc_u64 writes: the digits up to the highest non-zero one
NDigits(v) ==
    IF v[1] >= 128 THEN 10
    ELSE IF v[1] > 0 THEN 9
    ELSE IF v[2] > 0 THEN (IF v[2] >= 2097152 THEN 8 ELSE IF v[2] >= 16384 THEN 7
                           ELSE IF v[2] >= 128 THEN 6 ELSE 5)
    ELSE IF v[3] >= 2097152 THEN 4 ELSE IF v[3] >= 16384 THEN 3
    ELSE IF v[3] >= 128 THEN 2 ELSE 1

\* vlenc_u64: 7 payload bits per byte, high bit set on all but the last byte
vlenc_u64(v) ==
    IF v[1] = 0 /\ v[2] = 0 /\ v[3] < 128
    THEN <<v[3]>>
    ELSE [i \in 1..NDigits(v) |->
             IF i < NDigits(v) THEN Digit(v, i - 1) + 128 ELSE Digit(v, i - 1)]

\* the byte at 0-based offset i of a buffer
ByteAt(data, i) == IF i < Len(data) THEN data[i + 1] ELSE 0

\* number of bytes of the varint starting at offset p (at most 10)
RECURSIVE VarLen(_, _, _)
VarLen(data, p, k) ==
    IF k < 9 /\ ByteAt(data, p + k) >= 128 THEN VarLen(data, p, k + 1) ELSE k + 1

\* payload of byte i (0-based) of an n-byte varint at offset p
Payload(data, p, n, i) == IF i < n THEN ByteAt(data, p + i) % 128 ELSE 0

\* four payloads from byte o on, as one 28-bit limb
Limb4(data, p, n, o) ==
    Payload(data, p, n, o) + Payload(data, p, n, o + 1) * 128
      + Payload(data, p, n, o + 2) * 16384 + Payload(data, p, n, o + 3) * 2097152

\* vldec_u64: the value and the number of bytes consumed
vldec_u64(data, p) ==
    IF ByteAt(data, p) < 128
    THEN [val |-> U(ByteAt(data, p)), inc |-> 1]
    ELSE Let(VarLen(data, p, 0), LAMBDA n :
             [val |-> << Payload(data, p, n, 8) + (Payload(data, p, n, 9) % 2) * 128,
                         Limb4(data, p, n, 4), Limb4(data, p, n, 0) >>,
              inc |-> n])

\* -------------------------------------------------------- tagged value
\* Variant::pack: type tag, size, payload, each a varint
Pack(v) == vlenc_u64(U(v.type)) \o vlenc_u64(U(v.size)) \o vlenc_u64(v.val)

\* Variant::unpack: the value and the number of bytes consumed
Unpack(data, p) ==
    Let(vldec_u64(data, p), LAMBDA t :
    Let(vldec_u64(data, p + t.inc), LAMBDA s :
    Let(vldec_u64(data, p + t.inc + s.inc), LAMBDA x :
        [val |-> [type |-> ToInt(t.val), size |-> ToInt(s.val), val |-> x.val],
         inc |-> t.inc + s.inc + x.inc])))

\* ------------------------------------------------------------ snapshots
\* EntryList: node_entries (ids), immediate_attr (ids), immediate_data (values)
Val(t, s, v) == [type |-> t, size |-> s, val |-> v]

EmptySnapshot == [nodes |-> <<>>, attrs |-> <<>>, vals |-> <<>>]

\* the snapshots the caller may present: none, a short one whose second node
\* id is ten bytes wide, the one of the concrete scenario, and one with more
\* than SNAP_MAX nodes and more than SNAP_MAX immediate entries
Snap ==
    << EmptySnapshot,
       [nodes |-> <<U(5), MaxU64>>, attrs |-> <<>>, vals |-> <<>>],
       [nodes |-> <<U(5), U(9), U(12)>>, attrs |-> <<U(2), U(3)>>,
        vals |-> <<Val(2, 8, U(7)), Val(4, 1, U(120))>>],
       [nodes |-> [i \in 1..(SNAP_MAX + 1) |-> U(i)],
        attrs |-> [i \in 1..(SNAP_MAX + 2) |-> U(100 + i)],
        vals |-> [i \in 1..(SNAP_MAX + 2) |-> Val(3, 8, IF i = 1 THEN MaxU64 ELSE U(i))]] >>

Snapshots == 1..Len(Snap)

\* EntryList::size()
Sizes(s) == [n_nodes |-> Len(s.nodes), n_immediate |-> Len(s.attrs)]

\* chunk capacities the caller may allocate
Capacities == {53, 3460}

\* ---------------------------------------------------------- context tree
\* Caliper::node(id): the ids the context tree resolves
NodeExists(id) == id[1] = 0 /\ id[2] = 0 /\ id[3] \in 1..200

\* --------------------------------------------------------------- chunks
ChunkIds == 1..MaxChunks

NoChunk == [size |-> 0, pos |-> 0, nrec |-> 0, data |-> <<>>, next |-> 0,
            st |-> "unalloc", freed |-> 0]

\* TraceBufferChunk(size_t s)
NewChunk(cap) == [size |-> cap, pos |-> 0, nrec |-> 0, data |-> <<>>, next |-> 0,
                  st |-> "live", freed |-> 0]

\* the chunks reachable from c through m_next, c first
RECURSIVE Chain(_, _)
Chain(h, c) == IF c = 0 THEN <<>> ELSE <<c>> \o Chain(h, h[c].next)

\* ~TraceBufferChunk: delete[] m_data; if (m_next) delete m_next
RECURSIVE Destroy(_, _)
Destroy(h, c) ==
    LET h1 == [h EXCEPT ![c].st = "deleted", ![c].freed = @ + 1, ![c].data = <<>>]
    IN  IF h[c].next # 0 THEN Destroy(h1, h[c].next) ELSE h1

\* append that links the new chunk to this chunk whether or not it has a successor
AppendChunkHere(h, c, chunk) == [h EXCEPT ![c].next = chunk]

\* TraceBufferChunk::append
RECURSIVE AppendChunk(_, _, _)
AppendChunk(h, c, chunk) ==
    IF h[c].next # 0
    THEN AppendChunk(h, h[c].next, chunk)
    ELSE [h EXCEPT ![c].next = chunk]

\* reset that also drops the link to the successor
ResetChunkDropsNext(ch) == [ch EXCEPT !.pos = 0, !.nrec = 0, !.data = <<>>, !.next = 0]

\* reset that forgets m_nrec = 0
ResetChunkKeepsCount(ch) == [ch EXCEPT !.pos = 0, !.data = <<>>]

\* TraceBufferChunk::reset
ResetChunk(ch) == [ch EXCEPT !.pos = 0, !.nrec = 0, !.data = <<>>]

\* info that does not ask the successor
InfoLocal(h, c) == [nchunks |-> 1, reserved |-> h[c].size, used |-> h[c].pos]

\* TraceBufferChunk::info
RECURSIVE Info(_, _)
Info(h, c) ==
    Let(IF h[c].next # 0 THEN Info(h, h[c].next)
                         ELSE [nchunks |-> 0, reserved |-> 0, used |-> 0], LAMBDA info :
        [nchunks |-> info.nchunks + 1,
         reserved |-> info.reserved + h[c].size,
         used |-> info.used + h[c].pos])

\* fits() that compares the cursor alone with the capacity
FitsIgnoresEstimate(ch, s) == ch.pos < ch.size

\* fits() with a non-strict comparison
FitsNonStrict(ch, s) ==
    (ch.pos + 20 + 10 * Sizes(s).n_nodes + 32 * Sizes(s).n_immediate) <= ch.size

\* TraceBufferChunk::fits
Fits(ch, s) ==
    LET sizes == Sizes(s)
        max == 20 + 10 * sizes.n_nodes + 32 * sizes.n_immediate
    IN  (ch.pos + max) < ch.size

\* ------------------------------------------------------- save_snapshot
\* the loop "m_pos += vlenc_u64(ids[i], m_data + m_pos)" over entries lo..hi
RECURSIVE EncodeIds(_, _, _)
EncodeIds(ids, lo, hi) ==
    IF lo > hi THEN <<>>
    ELSE IF lo = hi THEN vlenc_u64(ids[lo])
    ELSE EncodeIds(ids, lo, (lo + hi) \div 2) \o EncodeIds(ids, (lo + hi) \div 2 + 1, hi)

\* the loop "m_pos += immediate_data[i].pack(m_data + m_pos)" over entries lo..hi
RECURSIVE EncodeVals(_, _, _)
EncodeVals(vals, lo, hi) ==
    IF lo > hi THEN <<>>
    ELSE IF lo = hi THEN Pack(vals[lo])
    ELSE EncodeVals(vals, lo, (lo + hi) \div 2) \o EncodeVals(vals, (lo + hi) \div 2 + 1, hi)

\* save_snapshot that packs the values before the attribute ids
EncodeRecordValsFirst(s) ==
    Let(Min(Sizes(s).n_nodes, SNAP_MAX), LAMBDA n_nodes :
    Let(Min(Sizes(s).n_immediate, SNAP_MAX), LAMBDA n_immediate :
        vlenc_u64(U(n_nodes)) \o vlenc_u64(U(n_immediate))
          \o EncodeIds(s.nodes, 1, n_nodes)
          \o EncodeVals(s.vals, 1, n_immediate)
          \o EncodeIds(s.attrs, 1, n_immediate)))

\* save_snapshot that does not clamp the sizes to SNAP_MAX
EncodeRecordNoClamp(s) ==
    vlenc_u64(U(Sizes(s).n_nodes)) \o vlenc_u64(U(Sizes(s).n_immediate))
      \o EncodeIds(s.nodes, 1, Sizes(s).n_nodes)
      \o EncodeIds(s.attrs, 1, Sizes(s).n_immediate)
      \o EncodeVals(s.vals, 1, Sizes(s).n_immediate)

\* the bytes save_snapshot writes for a snapshot that is not empty
EncodeRecord(s) ==
    Let(Min(Sizes(s).n_nodes, SNAP_MAX), LAMBDA n_nodes :
    Let(Min(Sizes(s).n_immediate, SNAP_MAX), LAMBDA n_immediate :
        vlenc_u64(U(n_nodes)) \o vlenc_u64(U(n_immediate))
          \o EncodeIds(s.nodes, 1, n_nodes)
          \o EncodeIds(s.attrs, 1, n_immediate)
          \o EncodeVals(s.vals, 1, n_immediate)))

\* the first n bytes of a buffer
Prefix(data, n) ==
    IF n <= Len(data) THEN SubSeq(data, 1, n)
    ELSE data \o [i \in 1..(n - Len(data)) |-> 0]

\* m_data after writing bytes at offset pos; bytes at or past m_size fall
\* outside the array
WriteAt(data, pos, bytes, size) ==
    Prefix(Prefix(data, pos) \o bytes \o SubSeq(data, pos + Len(bytes) + 1, Len(data)),
           Min(size, Max(Len(data), pos + Len(bytes))))

\* save_snapshot that forgets ++m_nrec
SaveRecordNoCount(ch, bytes) ==
    [ch EXCEPT !.data = WriteAt(ch.data, ch.pos, bytes, ch.size),
               !.pos = @ + Len(bytes)]

\* the encode half of save_snapshot
SaveRecord(ch, bytes) ==
    [ch EXCEPT !.data = WriteAt(ch.data, ch.pos, bytes, ch.size),
               !.pos = @ + Len(bytes),
               !.nrec = @ + 1]

\* save_snapshot without the early return for an empty snapshot
SaveSnapshotNoEarlyReturn(ch, s) == SaveRecord(ch, EncodeRecord(s))

\* TraceBufferChunk::save_snapshot
SaveSnapshot(ch, s) ==
    IF Sizes(s).n_nodes + Sizes(s).n_immediate = 0
    THEN ch
    ELSE SaveRecord(ch, EncodeRecord(s))

\* --------------------------------------------------------------- flush
\* what the sink receives: a node's write_path, or one snapshot record
PathEv(id) == [k |-> "path", id |-> id, nodes |-> <<>>, attrs |-> <<>>, vals |-> <<>>]

SnapEv(n_nodes, n_attr, node_vec, attr_vec, vals_vec) ==
    [k |-> "snap", id |-> U(0),
     nodes |-> SubSeq(node_vec, 1, n_nodes),
     attrs |-> SubSeq(attr_vec, 1, n_attr),
     vals |-> SubSeq(vals_vec, 1, n_attr)]

\* the loop "vec[i] = vldec_u64(m_data + p, &p)" for n entries from cursor p
RECURSIVE DecodeIds(_, _, _)
DecodeIds(data, p, n) ==
    IF n <= 0 THEN [vec |-> <<>>, p |-> p]
    ELSE IF n = 1
    THEN Let(vldec_u64(data, p), LAMBDA d : [vec |-> <<d.val>>, p |-> p + d.inc])
    ELSE Let(DecodeIds(data, p, n \div 2), LAMBDA l :
         Let(DecodeIds(data, l.p, n - n \div 2), LAMBDA r :
             [vec |-> l.vec \o r.vec, p |-> r.p]))

\* the loop "vals_vec[i] = Variant::unpack(m_data + p, &p)" for n entries
RECURSIVE DecodeVals(_, _, _)
DecodeVals(data, p, n) ==
    IF n <= 0 THEN [vec |-> <<>>, p |-> p]
    ELSE IF n = 1
    THEN Let(Unpack(data, p), LAMBDA d : [vec |-> <<d.val>>, p |-> p + d.inc])
    ELSE Let(DecodeVals(data, p, n \div 2), LAMBDA l :
         Let(DecodeVals(data, l.p, n - n \div 2), LAMBDA r :
             [vec |-> l.vec \o r.vec, p |-> r.p]))

\* decode snapshot record
DecodeRecord(data, p) ==
    Let(vldec_u64(data, p), LAMBDA a :
    Let(vldec_u64(data, p + a.inc), LAMBDA b :
    Let(Min(ToInt(a.val), SNAP_MAX), LAMBDA n_nodes :
    Let(Min(ToInt(b.val), SNAP_MAX), LAMBDA n_attr :
    Let(DecodeIds(data, p + a.inc + b.inc, n_nodes), LAMBDA nv :
    Let(DecodeIds(data, nv.p, n_attr), LAMBDA av :
    Let(DecodeVals(data, av.p, n_attr), LAMBDA vv :
        [n_nodes |-> n_nodes, n_attr |-> n_attr,
         node_vec |-> nv.vec, attr_vec |-> av.vec, vals_vec |-> vv.vec, p |-> vv.p])))))))

\* a write-nodes iteration that forgets written_node_cache.insert
WriteNodeNoInsert(node_id, w) ==
    IF node_id \in w.cache
    THEN w
    ELSE [cache |-> w.cache,
          out |-> IF NodeExists(node_id) THEN Append(w.out, PathEv(node_id)) ELSE w.out,
          looked |-> Append(w.looked, node_id)]

\* a write-nodes iteration that marks an id as written only if it resolves
WriteNodeInsertIfResolved(node_id, w) ==
    IF node_id \in w.cache
    THEN w
    ELSE [cache |-> IF NodeExists(node_id) THEN w.cache \cup {node_id} ELSE w.cache,
          out |-> IF NodeExists(node_id) THEN Append(w.out, PathEv(node_id)) ELSE w.out,
          looked |-> Append(w.looked, node_id)]

\* one iteration of a write-nodes loop: w is the cache, the sink so far and
\* the ids c->node() has been asked for so far
WriteNode(node_id, w) ==
    IF node_id \in w.cache
    THEN w
    ELSE [cache |-> w.cache \cup {node_id},
          out |-> IF NodeExists(node_id) THEN Append(w.out, PathEv(node_id)) ELSE w.out,
          looked |-> Append(w.looked, node_id)]

\* write nodes: the loop over entries lo..hi of a vector of ids
RECURSIVE WriteNodes(_, _, _, _)
WriteNodes(vec, lo, hi, w) ==
    IF lo > hi THEN w
    ELSE IF lo = hi THEN WriteNode(vec[lo], w)
    ELSE Let(WriteNodes(vec, lo, (lo + hi) \div 2, w), LAMBDA wl :
             WriteNodes(vec, (lo + hi) \div 2 + 1, hi, wl))

\* a loop body that writes the snapshot record before the nodes
FlushRecordSnapshotFirst(rec, w) ==
    WriteNodes(rec.attr_vec, 1, rec.n_attr,
               WriteNodes(rec.node_vec, 1, rec.n_nodes,
                          [cache |-> w.cache,
                           out |-> Append(w.out, SnapEv(rec.n_nodes, rec.n_attr,
                                                        rec.node_vec, rec.attr_vec, rec.vals_vec)),
                           looked |-> w.looked]))

\* the body of the local flush loop for one decoded record
FlushRecord(rec, w) ==
    Let(WriteNodes(rec.attr_vec, 1, rec.n_attr,
                   WriteNodes(rec.node_vec, 1, rec.n_nodes, w)), LAMBDA w2 :
        [cache |-> w2.cache,
         out |-> Append(w2.out, SnapEv(rec.n_nodes, rec.n_attr,
                                       rec.node_vec, rec.attr_vec, rec.vals_vec)),
         looked |-> w2.looked])

\* local flush: the loop over m_nrec records; st is the cursor, cache and sink
RECURSIVE FlushRecords(_, _, _)
FlushRecords(data, r, st) ==
    IF r = 0
    THEN st
    ELSE Let(DecodeRecord(data, st.p), LAMBDA rec :
         Let(FlushRecord(rec, [cache |-> st.cache, out |-> st.out, looked |-> st.looked]), LAMBDA w :
             FlushRecords(data, r - 1, [p |-> rec.p, cache |-> w.cache, out |-> w.out,
                                        looked |-> w.looked])))

RECURSIVE Flush(_, _, _, _, _)
\* flush that returns the successor's count only
FlushNextDropsLocalCount(h, c, loc, cur) ==
    IF h[c].next # 0
    THEN Let(Flush(h, h[c].next, loc.cache, loc.out, loc.looked), LAMBDA sub :
             [h |-> [Destroy(sub.h, h[c].next) EXCEPT ![c].next = 0],
              cache |-> sub.cache, out |-> sub.out, looked |-> sub.looked,
              written |-> sub.written, cursors |-> cur \o sub.cursors])
    ELSE [h |-> h, cache |-> loc.cache, out |-> loc.out, looked |-> loc.looked,
          written |-> cur[1].nrec, cursors |-> cur]

\* flush that hands the successor a copy of the cache
FlushNextCopiesCache(h, c, loc, cur) ==
    IF h[c].next # 0
    THEN Let(Flush(h, h[c].next, loc.cache, loc.out, loc.looked), LAMBDA sub :
             [h |-> [Destroy(sub.h, h[c].next) EXCEPT ![c].next = 0],
              cache |-> loc.cache, out |-> sub.out, looked |-> sub.looked,
              written |-> cur[1].nrec + sub.written, cursors |-> cur \o sub.cursors])
    ELSE [h |-> h, cache |-> loc.cache, out |-> loc.out, looked |-> loc.looked,
          written |-> cur[1].nrec, cursors |-> cur]

\* flush that emits the successor's records before its own
FlushNextSuccessorFirst(h, c, loc, cur) ==
    IF h[c].next # 0
    THEN Let(Flush(h, h[c].next, loc.cache, <<>>, loc.looked), LAMBDA sub :
             [h |-> [Destroy(sub.h, h[c].next) EXCEPT ![c].next = 0],
              cache |-> sub.cache, out |-> sub.out \o loc.out, looked |-> sub.looked,
              written |-> cur[1].nrec + sub.written, cursors |-> cur \o sub.cursors])
    ELSE [h |-> h, cache |-> loc.cache, out |-> loc.out, looked |-> loc.looked,
          written |-> cur[1].nrec, cursors |-> cur]

\* flush that deletes m_next without clearing the link
FlushNextKeepsLink(h, c, loc, cur) ==
    IF h[c].next # 0
    THEN Let(Flush(h, h[c].next, loc.cache, loc.out, loc.looked), LAMBDA sub :
             [h |-> Destroy(sub.h, h[c].next),
              cache |-> sub.cache, out |-> sub.out, looked |-> sub.looked,
              written |-> cur[1].nrec + sub.written, cursors |-> cur \o sub.cursors])
    ELSE [h |-> h, cache |-> loc.cache, out |-> loc.out, looked |-> loc.looked,
          written |-> cur[1].nrec, cursors |-> cur]

\* the tail of flush: flush subsequent buffers, delete m_next, m_next = 0
FlushNext(h, c, loc, cur) ==
    IF h[c].next # 0
    THEN Let(Flush(h, h[c].next, loc.cache, loc.out, loc.looked), LAMBDA sub :
             [h |-> [Destroy(sub.h, h[c].next) EXCEPT ![c].next = 0],
              cache |-> sub.cache, out |-> sub.out, looked |-> sub.looked,
              written |-> cur[1].nrec + sub.written, cursors |-> cur \o sub.cursors])
    ELSE [h |-> h, cache |-> loc.cache, out |-> loc.out, looked |-> loc.looked,
          written |-> cur[1].nrec, cursors |-> cur]

\* TraceBufferChunk::flush; cursors: each flushed chunk's final read cursor
Flush(h, c, cache, out, looked) ==
    Let(FlushRecords(h[c].data, h[c].nrec,
                     [p |-> 0, cache |-> cache, out |-> out, looked |-> looked]), LAMBDA loc :
        FlushNext([h EXCEPT ![c] = ResetChunk(@)], c, loc,
                  <<[chunk |-> c, p |-> loc.p, pos |-> h[c].pos, nrec |-> h[c].nrec]>>))

\* ---------------------------------------------------------------- state
VARIABLES
    chunks,     \* chunk id -> the TraceBufferChunk object (m_size, m_pos, m_nrec, m_data, m_next)
    cache,      \* written_node_cache, owned by the caller of flush
    sink,       \* the calls the sink received during the latest flush
    ret,        \* the value the latest flush returned
    saved,      \* history: per chunk, the snapshots passed to save_snapshot since its last reset
    last,       \* history: the latest operation, what it started from, what it did
    nsaves,     \* number of save_snapshot calls so far
    nflushes,   \* number of flush calls so far
    overrun,    \* a save_snapshot wrote past m_data + m_size
    order,      \* history: the records saved since the last flush and not reset, in call order
    writers,    \* two-writer scenario: where each writer is between its fits and its save
    textlog     \* the text log service: its members and the threads inside its callbacks

vars == <<chunks, cache, sink, ret, saved, last, nsaves, nflushes, overrun, order, writers,
          textlog>>

\* the variables of the other scenarios
elsewhere == <<writers, textlog>>

\* the threads that run the text log's callbacks
Threads == 1..2

\* TextLogService after construction, no thread inside a callback
TextLogInit ==
    [pc |-> [t \in Threads |-> "idle"],
     arg |-> [t \in Threads |-> [id |-> 0, has |-> FALSE]],
     found |-> [t \in Threads |-> FALSE],
     written |-> [t \in Threads |-> 0],
     calls |-> [t \in Threads |-> 0],
     trigger_attr_mutex |-> 0,
     stream_mutex |-> 0,
     trigger_attr_map |-> {},
     stream |-> <<>>,
     unguarded |-> FALSE]

Writers == 1..2

IdleWriter == [pc |-> "idle", snap |-> 0, fitpos |-> 0, stale |-> FALSE, rounds |-> 0]

NoOp == [op |-> "init", chunk |-> 0, snap |-> 0, before |-> NoChunk, chain |-> <<>>,
         recs |-> <<>>, cache0 |-> {}, cursors |-> <<>>, looked |-> <<>>, prev |-> "init",
         h0 |-> <<>>, info |-> [nchunks |-> 0, reserved |-> 0, used |-> 0], order |-> <<>>,
         writer |-> 0]

Live(c) == chunks[c].st = "live"

\* the chunk the caller holds: the first one allocated
HeadChunk == CHOOSE c \in ChunkIds : \A o \in ChunkIds : c <= o

\* the snapshots saved into the chain that starts at c, in chain order
RECURSIVE ChainRecs(_, _, _)
ChainRecs(h, sv, c) == IF c = 0 THEN <<>> ELSE sv[c] \o ChainRecs(h, sv, h[c].next)

Init ==
    /\ \E cap \in Capacities :
          chunks = [c \in ChunkIds |-> IF c = HeadChunk THEN NewChunk(cap) ELSE NoChunk]
    /\ cache = {}
    /\ sink = <<>>
    /\ ret = 0
    /\ saved = [c \in ChunkIds |-> <<>>]
    /\ last = NoOp
    /\ nsaves = 0
    /\ nflushes = 0
    /\ overrun = FALSE
    /\ order = <<>>
    /\ writers = [w \in Writers |-> IdleWriter]
    /\ textlog = TextLogInit

\* save_snapshot(s) on chunk c
DoSave(c, s) ==
    /\ chunks' = [chunks EXCEPT ![c] = SaveSnapshot(@, Snap[s])]
    /\ saved' = [saved EXCEPT ![c] = Append(@, s)]
    /\ overrun' = (chunks'[c].pos > chunks'[c].size)
    /\ nsaves' = nsaves + 1
    /\ order' = IF Sizes(Snap[s]).n_nodes + Sizes(Snap[s]).n_immediate = 0
                THEN order ELSE Append(order, [chunk |-> c, snap |-> s])
    /\ UNCHANGED <<cache, sink, ret, nflushes, elsewhere>>

\* the caller's write path: if (chunk->fits(s)) chunk->save_snapshot(s)
Record(c, s) ==
    /\ ~overrun
    /\ Live(c)
    /\ nsaves < MaxSaves
    /\ IF Fits(chunks[c], Snap[s])
       THEN /\ DoSave(c, s)
            /\ last' = [NoOp EXCEPT !.op = "save", !.chunk = c, !.snap = s, !.before = chunks[c],
                                    !.cache0 = cache]
       ELSE /\ last' = [NoOp EXCEPT !.op = "nofit", !.chunk = c, !.snap = s, !.before = chunks[c],
                                    !.cache0 = cache]
            /\ UNCHANGED <<chunks, cache, sink, ret, saved, nsaves, nflushes, overrun,
                           order, elsewhere>>

\* the caller saves a snapshot without asking fits()
UnguardedSave(c, s) ==
    /\ ~overrun
    /\ Live(c)
    /\ nsaves < MaxSaves
    /\ DoSave(c, s)
    /\ last' = [NoOp EXCEPT !.op = "rawsave", !.chunk = c, !.snap = s, !.before = chunks[c],
                            !.cache0 = cache]

\* the caller allocates a chunk and appends it through chunk c
AppendNew(c, cap) ==
    /\ ~overrun
    /\ Live(c)
    /\ \E new \in ChunkIds :
          /\ chunks[new].st = "unalloc"
          /\ \A o \in ChunkIds : chunks[o].st = "unalloc" => new <= o
          /\ chunks' = AppendChunk([chunks EXCEPT ![new] = NewChunk(cap)], c, new)
          /\ last' = [NoOp EXCEPT !.op = "append", !.chunk = c, !.snap = new,
                                  !.chain = Chain(chunks, HeadChunk),
                                  !.cache0 = cache, !.h0 = chunks]
    /\ UNCHANGED <<cache, sink, ret, saved, nsaves, nflushes, overrun, order, elsewhere>>

\* reset() on chunk c
Reset(c) ==
    /\ ~overrun
    /\ Live(c)
    /\ chunks[c].pos > 0
    /\ chunks' = [chunks EXCEPT ![c] = ResetChunk(@)]
    /\ saved' = [saved EXCEPT ![c] = <<>>]
    /\ last' = [NoOp EXCEPT !.op = "reset", !.chunk = c, !.before = chunks[c],
                            !.chain = Chain(chunks, HeadChunk),
                            !.recs = ChainRecs(chunks, saved, HeadChunk),
                            !.cache0 = cache, !.h0 = chunks]
    /\ order' = SelectSeq(order, LAMBDA o : o.chunk # c)
    /\ UNCHANGED <<cache, sink, ret, nsaves, nflushes, overrun, elsewhere>>

\* info() on chunk c
InfoCall(c) ==
    /\ ~overrun
    /\ Live(c)
    /\ last' = [NoOp EXCEPT !.op = "info", !.chunk = c, !.before = chunks[c],
                            !.chain = Chain(chunks, c), !.cache0 = cache, !.h0 = chunks,
                            !.prev = last.op, !.info = Info(chunks, c)]
    /\ UNCHANGED <<chunks, cache, sink, ret, saved, nsaves, nflushes, overrun, order, elsewhere>>

\* flush(c, cache) on the head of the chain
FlushHead ==
    /\ ~overrun
    /\ nflushes < MaxFlushes
    /\ \E f \in {Flush(chunks, HeadChunk, cache, <<>>, <<>>)} :
           /\ chunks' = f.h
           /\ cache' = f.cache
           /\ sink' = f.out
           /\ ret' = f.written
           /\ last' = [NoOp EXCEPT !.op = "flush", !.chunk = HeadChunk,
                                   !.chain = Chain(chunks, HeadChunk),
                                   !.recs = ChainRecs(chunks, saved, HeadChunk),
                                   !.cache0 = cache,
                                   !.cursors = f.cursors,
                                   !.looked = f.looked,
                                   !.before = chunks[HeadChunk],
                                   !.prev = last.op,
                                   !.order = order]
    /\ saved' = [c \in ChunkIds |-> <<>>]
    /\ nflushes' = nflushes + 1
    /\ order' = <<>>
    /\ UNCHANGED <<nsaves, overrun, elsewhere>>

Next ==
    \/ \E c \in ChunkIds, s \in Snapshots : Record(c, s)
    \/ \E c \in ChunkIds, cap \in Capacities : AppendNew(c, cap)
    \/ \E c \in ChunkIds : Reset(c)
    \/ \E c \in ChunkIds : InfoCall(c)
    \/ FlushHead

Spec == Init /\ [][Next]_vars

NextUnguarded ==
    \/ Next
    \/ \E c \in ChunkIds, s \in Snapshots : UnguardedSave(c, s)

SpecUnguarded == Init /\ [][NextUnguarded]_vars

\* ------------------------------------------------- two writers, one chunk
\* a snapshot whose record is more than half of its estimate: two ids of ten bytes
DenseSnapshot == [nodes |-> <<MaxU64, MaxU64>>, attrs |-> <<>>, vals |-> <<>>]

RaceSnap == <<Snap[2], Snap[3], DenseSnapshot>>

RaceCapacities == {41, 53, 115}

InitRace ==
    /\ \E cap \in RaceCapacities :
          chunks = [c \in ChunkIds |-> IF c = HeadChunk THEN NewChunk(cap) ELSE NoChunk]
    /\ cache = {}
    /\ sink = <<>>
    /\ ret = 0
    /\ saved = [c \in ChunkIds |-> <<>>]
    /\ last = NoOp
    /\ nsaves = 0
    /\ nflushes = 0
    /\ overrun = FALSE
    /\ order = <<>>
    /\ writers = [w \in Writers |-> IdleWriter]
    /\ textlog = TextLogInit

\* writer w calls fits(s) on the chunk and keeps the answer
WriterFits(w, s) ==
    /\ ~overrun
    /\ writers[w].pc \in {"idle", "saved"}
    /\ writers[w].rounds < MaxRounds
    /\ writers' = [writers EXCEPT ![w] =
                      IF Fits(chunks[HeadChunk], RaceSnap[s])
                      THEN [pc |-> "fitted", snap |-> s, fitpos |-> chunks[HeadChunk].pos,
                            stale |-> FALSE, rounds |-> @.rounds]
                      ELSE [IdleWriter EXCEPT !.rounds = writers[w].rounds + 1]]
    /\ last' = [NoOp EXCEPT !.op = "wfits", !.chunk = HeadChunk, !.writer = w,
                            !.before = chunks[HeadChunk]]
    /\ UNCHANGED <<chunks, cache, sink, ret, saved, nsaves, nflushes, overrun, order, textlog>>

\* writer w, whose fits(s) returned true, calls save_snapshot(s)
WriterSave(w) ==
    /\ ~overrun
    /\ writers[w].pc = "fitted"
    /\ chunks' = [chunks EXCEPT ![HeadChunk] = SaveSnapshot(@, RaceSnap[writers[w].snap])]
    /\ overrun' = (chunks'[HeadChunk].pos > chunks'[HeadChunk].size)
    /\ writers' = [o \in Writers |->
                      IF o = w
                      THEN [writers[w] EXCEPT !.pc = "saved", !.rounds = @ + 1]
                      ELSE IF writers[o].pc = "fitted"
                      THEN [writers[o] EXCEPT !.stale = TRUE]
                      ELSE writers[o]]
    /\ last' = [NoOp EXCEPT !.op = "wsave", !.chunk = HeadChunk, !.writer = w,
                            !.before = chunks[HeadChunk]]
    /\ UNCHANGED <<cache, sink, ret, saved, nsaves, nflushes, order, textlog>>

NextRace ==
    \/ \E w \in Writers, s \in 1..Len(RaceSnap) : WriterFits(w, s)
    \/ \E w \in Writers : WriterSave(w)

SpecRace == InitRace /\ [][NextRace]_vars

\* ------------------------------------------------------ text log service
\* the variables of the trace buffer, which the text log does not touch
traceVars == <<chunks, cache, sink, ret, saved, last, nsaves, nflushes, overrun, order,
               writers>>

\* attributes a callback may be given: 1 is a trigger attribute, 2 is one
\* that is marked skip_events, 3 is not named in trigger_attr_names
Attrs == 1..3

TriggerAttrNames == {1, 2}

SkipEvents(a) == a = 2

\* the pieces in which the stream takes a line
LineParts == 2

\* std::lock_guard's constructor returns once the mutex is free
CanLock(mutex, t) == mutex = 0

\* a process_snapshot_cb whose lookup lock lives until the function returns
ScopeEndKeepsLock(tl, t) == [tl EXCEPT !.pc[t] = "ps_check"]

\* the end of the block around the lookup: the lock_guard releases trigger_attr_mutex
ScopeEnd(tl, t) == [tl EXCEPT !.trigger_attr_mutex = 0, !.pc[t] = "ps_check"]

\* create_attribute_cb up to the lock: update the formatter, return for an
\* attribute that skips events or is not named as a trigger
CreateAttributeCall(t, a) ==
    /\ textlog.pc[t] = "idle"
    /\ textlog.calls[t] < MaxCalls
    /\ textlog' = IF SkipEvents(a) \/ a \notin TriggerAttrNames
                  THEN [textlog EXCEPT !.calls[t] = @ + 1]
                  ELSE [textlog EXCEPT !.calls[t] = @ + 1, !.pc[t] = "ca_lock",
                                       !.arg[t] = [id |-> a, has |-> FALSE]]
    /\ UNCHANGED traceVars

\* std::lock_guard<std::mutex> lock(trigger_attr_mutex) in create_attribute_cb
CaLock(t) ==
    /\ textlog.pc[t] = "ca_lock"
    /\ CanLock(textlog.trigger_attr_mutex, t)
    /\ textlog' = [textlog EXCEPT !.trigger_attr_mutex = t, !.pc[t] = "ca_insert"]
    /\ UNCHANGED traceVars

\* trigger_attr_map.insert
CaInsert(t) ==
    /\ textlog.pc[t] = "ca_insert"
    /\ textlog' = [textlog EXCEPT !.trigger_attr_map = @ \cup {textlog.arg[t].id},
                                  !.unguarded = @ \/ textlog.trigger_attr_mutex # t,
                                  !.pc[t] = "ca_unlock"]
    /\ UNCHANGED traceVars

\* the end of the if block: the lock_guard releases trigger_attr_mutex
CaUnlock(t) ==
    /\ textlog.pc[t] = "ca_unlock"
    /\ textlog' = [textlog EXCEPT !.trigger_attr_mutex = 0, !.pc[t] = "idle"]
    /\ UNCHANGED traceVars

\* process_snapshot_cb up to the lock: ev is the id the event entry holds,
\* 0 if there is no trigger info or no event; has: the snapshot has the attribute
ProcessSnapshotCall(t, ev, has) ==
    /\ textlog.pc[t] = "idle"
    /\ textlog.calls[t] < MaxCalls
    /\ textlog' = IF ev = 0
                  THEN [textlog EXCEPT !.calls[t] = @ + 1]
                  ELSE [textlog EXCEPT !.calls[t] = @ + 1, !.pc[t] = "ps_lock",
                                       !.arg[t] = [id |-> ev, has |-> has],
                                       !.found[t] = FALSE]
    /\ UNCHANGED traceVars

\* std::lock_guard<std::mutex> lock(trigger_attr_mutex) in process_snapshot_cb
PsLock(t) ==
    /\ textlog.pc[t] = "ps_lock"
    /\ CanLock(textlog.trigger_attr_mutex, t)
    /\ textlog' = [textlog EXCEPT !.trigger_attr_mutex = t, !.pc[t] = "ps_find"]
    /\ UNCHANGED traceVars

\* trigger_attr_map.find, and the copy of it->second
PsFind(t) ==
    /\ textlog.pc[t] = "ps_find"
    /\ textlog' = [textlog EXCEPT !.found[t] = textlog.arg[t].id \in textlog.trigger_attr_map,
                                  !.unguarded = @ \/ textlog.trigger_attr_mutex # t,
                                  !.pc[t] = "ps_scope_end"]
    /\ UNCHANGED traceVars

PsScopeEnd(t) ==
    /\ textlog.pc[t] = "ps_scope_end"
    /\ textlog' = ScopeEnd(textlog, t)
    /\ UNCHANGED traceVars

\* return without a line, or format the line into a local ostringstream
PsCheck(t) ==
    /\ textlog.pc[t] = "ps_check"
    /\ textlog' = IF ~textlog.found[t] \/ ~textlog.arg[t].has
                  THEN [textlog EXCEPT !.pc[t] = "idle"]
                  ELSE [textlog EXCEPT !.pc[t] = "ps_lock_stream"]
    /\ UNCHANGED traceVars

\* std::lock_guard<std::mutex> g(stream_mutex)
PsLockStream(t) ==
    /\ textlog.pc[t] = "ps_lock_stream"
    /\ CanLock(textlog.stream_mutex, t)
    /\ textlog' = [textlog EXCEPT !.stream_mutex = t, !.pc[t] = "ps_write"]
    /\ UNCHANGED traceVars

\* get_stream() << os.str(): the stream takes the next piece of the line
PsWrite(t) ==
    /\ textlog.pc[t] = "ps_write"
    /\ textlog' = [textlog EXCEPT
                      !.stream = Append(@, [thread |-> t, call |-> textlog.calls[t],
                                            part |-> textlog.written[t] + 1,
                                            held |-> textlog.stream_mutex = t]),
                      !.written[t] = @ + 1,
                      !.pc[t] = IF textlog.written[t] + 1 = LineParts
                                THEN "ps_return" ELSE "ps_write"]
    /\ UNCHANGED traceVars

\* the function returns: g releases stream_mutex
PsReturn(t) ==
    /\ textlog.pc[t] = "ps_return"
    /\ textlog' = [textlog EXCEPT !.stream_mutex = 0, !.written[t] = 0, !.pc[t] = "idle"]
    /\ UNCHANGED traceVars

NextTextLog ==
    \/ \E t \in Threads, a \in Attrs : CreateAttributeCall(t, a)
    \/ \E t \in Threads : CaLock(t)
    \/ \E t \in Threads : CaInsert(t)
    \/ \E t \in Threads : CaUnlock(t)
    \/ \E t \in Threads, ev \in {0} \cup Attrs, has \in BOOLEAN : ProcessSnapshotCall(t, ev, has)
    \/ \E t \in Threads : PsLock(t)
    \/ \E t \in Threads : PsFind(t)
    \/ \E t \in Threads : PsScopeEnd(t)
    \/ \E t \in Threads : PsCheck(t)
    \/ \E t \in Threads : PsLockStream(t)
    \/ \E t \in Threads : PsWrite(t)
    \/ \E t \in Threads : PsReturn(t)

SpecTextLog == Init /\ [][NextTextLog]_vars

\* ------------------------------------------------------------ properties
\* what the claims are stated in: the snapshots a flush started from
Clamp(seq) == SubSeq(seq, 1, Min(Len(seq), SNAP_MAX))

IsEmpty(s) == Len(Snap[s].nodes) + Len(Snap[s].attrs) = 0

WithinMax(s) == Len(Snap[s].nodes) <= SNAP_MAX /\ Len(Snap[s].attrs) <= SNAP_MAX

\* the snapshots of a history that left a record behind
Recorded(recs) == SelectSeq(recs, LAMBDA s : ~IsEmpty(s))

SnapEvents(out) == SelectSeq(out, LAMBDA e : e.k = "snap")

PathEvents(out) == SelectSeq(out, LAMBDA e : e.k = "path")

\* the snapshot-level record a saved snapshot should come back as
ExpectedEv(s) ==
    [k |-> "snap", id |-> U(0), nodes |-> Clamp(Snap[s].nodes),
     attrs |-> Clamp(Snap[s].attrs), vals |-> Clamp(Snap[s].vals)]

Range(seq) == {seq[i] : i \in 1..Len(seq)}

\* the ids a saved snapshot's record references, and the ones it drops
Referenced(s) == Range(Clamp(Snap[s].nodes)) \cup Range(Clamp(Snap[s].attrs))

Dropped(s) == (Range(Snap[s].nodes) \cup Range(Snap[s].attrs)) \ Referenced(s)

AllReferenced(recs) == UNION {Referenced(recs[j]) : j \in 1..Len(recs)}

PathCount(out, id) == Cardinality({i \in 1..Len(out) : out[i].k = "path" /\ out[i].id = id})

\* the estimate of fits(): with the sizes as given, and with the sizes clamped
Estimate(s) == 20 + 10 * Len(Snap[s].nodes) + 32 * Len(Snap[s].attrs)

ClampedEstimate(s) ==
    20 + 10 * Min(Len(Snap[s].nodes), SNAP_MAX) + 32 * Min(Len(Snap[s].attrs), SNAP_MAX)

\* the bytes a chunk should hold after the saves of a history
RECURSIVE ConcatRecords(_)
ConcatRecords(recs) ==
    IF recs = <<>> THEN <<>>
    ELSE EncodeRecord(Snap[Head(recs)]) \o ConcatRecords(Tail(recs))

\* C1: admission soundness. A save_snapshot that follows a true fits() on the
\* same chunk, with nothing in between, leaves the write position at or below
\* the capacity: no byte is written outside the chunk's storage.
C1_AdmissionSound ==
    /\ ~overrun
    /\ \A c \in ChunkIds : Live(c) => chunks[c].pos <= chunks[c].size
    /\ last.op = "save" =>
          /\ last.before.pos + Estimate(last.snap) < last.before.size
          /\ chunks[last.chunk].pos <= last.before.pos + Estimate(last.snap)

\* the snapshot with more than SNAP_MAX entries was admitted and written
C1_Witness ==
    /\ last.op = "save"
    /\ last.snap = 4
    /\ Fits(last.before, Snap[4])
    /\ chunks[last.chunk].pos > last.before.pos + 5 * SNAP_MAX

\* C2 as stated: every snapshot within SNAP_MAX, saved into an otherwise empty
\* chunk and flushed, comes back as one snapshot-level record equal to it.
C2_AsStated ==
    (last.op = "flush" /\ Len(last.recs) = 1 /\ WithinMax(last.recs[1])) =>
        SnapEvents(sink) = <<ExpectedEv(last.recs[1])>>

\* C2: round trip. A snapshot that is not empty and has at most SNAP_MAX nodes
\* and at most SNAP_MAX immediate entries, saved into an otherwise empty chunk
\* and flushed, reaches the sink as one snapshot-level record whose node ids,
\* attribute ids and values equal the snapshot's, in order.
C2_RoundTrip ==
    (last.op = "flush" /\ Len(last.recs) = 1 /\ WithinMax(last.recs[1])
        /\ ~IsEmpty(last.recs[1])) =>
        /\ SnapEvents(sink) = <<ExpectedEv(last.recs[1])>>
        /\ sink[Len(sink)].nodes = Snap[last.recs[1]].nodes
        /\ sink[Len(sink)].attrs = Snap[last.recs[1]].attrs
        /\ sink[Len(sink)].vals = Snap[last.recs[1]].vals

\* the scenario's snapshot went through a chunk and came back
C2_Witness ==
    /\ last.op = "flush"
    /\ last.recs = <<3>>
    /\ Len(last.chain) = 1
    /\ Len(SnapEvents(sink)) = 1
    /\ sink[Len(sink)].vals = Snap[3].vals

\* C3: truncation. A saved snapshot with more than SNAP_MAX nodes (immediate
\* entries) comes back with exactly its first SNAP_MAX node ids (attribute ids
\* and values) in order; an id it dropped, unless another record references
\* it, gets no path emission and does not enter the cache.
C3_Truncation ==
    last.op = "flush" =>
        \A j \in 1..Len(Recorded(last.recs)) :
            LET s == Recorded(last.recs)[j]
                ev == SnapEvents(sink)[j]
            IN  ~WithinMax(s) =>
                   /\ ev.nodes = SubSeq(Snap[s].nodes, 1, SNAP_MAX)
                   /\ ev.attrs = SubSeq(Snap[s].attrs, 1, SNAP_MAX)
                   /\ ev.vals = SubSeq(Snap[s].vals, 1, SNAP_MAX)
                   /\ \A d \in Dropped(s) \ AllReferenced(last.recs) :
                         /\ d \notin Range(ev.nodes) \cup Range(ev.attrs)
                         /\ PathCount(sink, d) = 0
                         /\ d \in cache => d \in last.cache0

\* a snapshot of SNAP_MAX + 1 nodes and SNAP_MAX + 2 immediate entries was flushed
C3_Witness ==
    /\ last.op = "flush"
    /\ 4 \in Range(last.recs)
    /\ Len(Snap[4].nodes) = SNAP_MAX + 1
    /\ \E i \in 1..Len(sink) : sink[i].k = "snap" /\ Len(sink[i].nodes) = SNAP_MAX
                                  /\ Len(sink[i].vals) = SNAP_MAX
    /\ Dropped(4) \ AllReferenced(last.recs) # {}

\* C4: deduplication. During one flush a node's path is emitted at most once,
\* however many records and chunks reference it; exactly once when the node
\* resolves and was not in the cache when the flush started; never when it was.
C4_Dedup ==
    last.op = "flush" =>
        /\ \A i \in 1..Len(sink) : sink[i].k = "path" => sink[i].id \in AllReferenced(last.recs)
        /\ \A id \in AllReferenced(last.recs) :
              /\ PathCount(sink, id) <= 1
              /\ (NodeExists(id) /\ id \notin last.cache0) => PathCount(sink, id) = 1
              /\ id \in last.cache0 => PathCount(sink, id) = 0

\* two records in different chunks reference one node, and a later flush
\* starts with a node of its records already in the cache
C4_Witness ==
    /\ last.op = "flush"
    /\ Len(last.chain) >= 2
    /\ Len(Recorded(last.recs)) = 2
    /\ Referenced(last.recs[1]) \cap Referenced(last.recs[2]) # {}
    /\ saved = [c \in ChunkIds |-> <<>>]
    /\ PathCount(sink, U(5)) = 1

\* a flush whose records reference a node the cache already held
C4_WitnessCached ==
    /\ last.op = "flush"
    /\ AllReferenced(last.recs) \cap last.cache0 # {}
    /\ AllReferenced(last.recs) \ last.cache0 # {}

\* the records the chunks of a flushed chain held
RECURSIVE SumRecords(_)
SumRecords(cur) == IF cur = <<>> THEN 0 ELSE Head(cur).nrec + SumRecords(Tail(cur))

\* C5: chain flush count. A flush of a chain whose chunks hold R records in
\* total returns R and hands the sink R snapshot-level records, one per saved
\* record.
C5_ChainCount ==
    last.op = "flush" =>
        /\ ret = SumRecords(last.cursors)
        /\ ret = Len(Recorded(last.recs))
        /\ Len(SnapEvents(sink)) = ret
        /\ \A j \in 1..ret : SnapEvents(sink)[j] = ExpectedEv(Recorded(last.recs)[j])

\* two records in two different chunks of a chain were flushed
C5_Witness ==
    /\ last.op = "flush"
    /\ Len(last.chain) = 3
    /\ ret = 2
    /\ \E i, j \in 1..Len(last.cursors) :
          i # j /\ last.cursors[i].nrec = 1 /\ last.cursors[j].nrec = 1

\* C6: chain post-state. When flush returns, the head has no record, write
\* position 0 and no successor, and every chunk that had been appended to it
\* was destroyed exactly once: none freed twice, none left allocated.
C6_ChainPostState ==
    /\ \A c \in ChunkIds : chunks[c].freed <= 1
    /\ last.op = "flush" =>
          /\ chunks[HeadChunk].st = "live"
          /\ chunks[HeadChunk].nrec = 0
          /\ chunks[HeadChunk].pos = 0
          /\ chunks[HeadChunk].next = 0
          /\ chunks[HeadChunk].freed = 0
          /\ \A i \in 2..Len(last.chain) :
                chunks[last.chain[i]].st = "deleted" /\ chunks[last.chain[i]].freed = 1
          /\ \A c \in ChunkIds : Live(c) => c = HeadChunk

\* a chain of three chunks, the last two holding records, was flushed
C6_Witness ==
    /\ last.op = "flush"
    /\ Len(last.chain) = 3
    /\ last.cursors[2].nrec + last.cursors[3].nrec > 0
    /\ chunks[last.chain[3]].st = "deleted"

\* C7 as stated: fits() is true exactly when position plus
\* 20 + 10 * min(n_nodes, SNAP_MAX) + 32 * min(n_immediate, SNAP_MAX)
\* is strictly below the capacity.
C7_AsStated ==
    last.op \in {"save", "nofit"} =>
        ((last.op = "save") <=>
            (last.before.pos + ClampedEstimate(last.snap) < last.before.size))

\* C7: the fits formula. fits() is true exactly when position plus
\* 20 + 10 * n_nodes + 32 * n_immediate, with the snapshot's sizes as they
\* are (not clamped to SNAP_MAX), is strictly below the capacity; equality
\* is not a fit, and the snapshot is saved only when fits() is true.
C7_FitsFormula ==
    last.op \in {"save", "nofit"} =>
        /\ (last.op = "save") <=>
              (last.before.pos + Estimate(last.snap) < last.before.size)
        /\ last.op = "nofit" => chunks[last.chunk] = last.before

\* position plus estimate equals the capacity, and the snapshot is refused
C7_Witness ==
    /\ last.op = "nofit"
    /\ last.before.pos > 0
    /\ last.before.pos + Estimate(last.snap) = last.before.size

\* C8: the empty snapshot. Saving a snapshot with no node and no immediate
\* entry writes no byte and leaves position and record count as they were,
\* and flush neither counts nor delivers anything for it.
C8_EmptyNoOp ==
    /\ (last.op \in {"save", "rawsave"} /\ IsEmpty(last.snap)) =>
          chunks[last.chunk] = last.before
    /\ (last.op = "flush" /\ \A j \in 1..Len(last.recs) : IsEmpty(last.recs[j])) =>
          ret = 0 /\ sink = <<>>
    /\ last.op = "flush" =>
          Len(SnapEvents(sink)) = Cardinality({j \in 1..Len(last.recs) : ~IsEmpty(last.recs[j])})

\* an empty snapshot was saved behind a record, and the chain was flushed
C8_Witness ==
    /\ last.op = "flush"
    /\ Len(last.recs) = 2
    /\ ~IsEmpty(last.recs[1])
    /\ IsEmpty(last.recs[2])
    /\ ret = 1

\* the save of an empty snapshot itself
C8_WitnessSave ==
    /\ last.op = "save"
    /\ IsEmpty(last.snap)
    /\ last.before.pos > 0
    /\ chunks[last.chunk] = last.before

\* C9: a save_snapshot whose encoded size does not fit is refused before any
\* byte is written: the write position never passes the capacity, also when
\* the caller has not asked fits().
C9_CheckedCapacity ==
    /\ ~overrun
    /\ \A c \in ChunkIds : chunks[c].st = "live" => chunks[c].pos <= chunks[c].size

\* C10: buffer well-formedness. The bytes of a chunk below its write position
\* are the encoded records of the snapshots saved into it, one after the
\* other and nothing else, so the decode loop of flush, run for record_count
\* records, ends with its cursor on the write position.
C10_WellFormed ==
    /\ \A c \in ChunkIds : Live(c) =>
          /\ chunks[c].nrec = Len(Recorded(saved[c]))
          /\ chunks[c].pos <= chunks[c].size
          /\ Prefix(chunks[c].data, chunks[c].pos) = ConcatRecords(Recorded(saved[c]))
          /\ FlushRecords(chunks[c].data, chunks[c].nrec,
                          [p |-> 0, cache |-> {}, out |-> <<>>, looked |-> <<>>]).p = chunks[c].pos
    /\ \A k \in 1..Len(last.cursors) :
          /\ last.cursors[k].p = last.cursors[k].pos
          /\ last.cursors[k].pos <= chunks[last.cursors[k].chunk].size

\* a chunk holding two records of different sizes was decoded to its end
C10_Witness ==
    /\ last.op = "flush"
    /\ \E k \in 1..Len(last.cursors) :
          /\ last.cursors[k].nrec = 2
          /\ last.cursors[k].p = last.cursors[k].pos
          /\ last.cursors[k].p > 5 * SNAP_MAX

\* how often c->node() was asked for an id during the latest flush
LookupCount(id) == Cardinality({i \in 1..Len(last.looked) : last.looked[i] = id})

\* C11: unresolvable reference. An id the context tree cannot resolve gets no
\* path emission, is inserted into the cache all the same, is looked up once
\* and not again for a later record or chunk of the same flush, and the
\* snapshot-level records that reference it are still delivered and counted.
C11_Unresolvable ==
    last.op = "flush" =>
        /\ \A id \in AllReferenced(last.recs) :
              /\ LookupCount(id) = (IF id \in last.cache0 THEN 0 ELSE 1)
              /\ ~NodeExists(id) => (PathCount(sink, id) = 0 /\ id \in cache)
        /\ \A i \in 1..Len(last.looked) : last.looked[i] \in AllReferenced(last.recs)
        /\ ret = Len(Recorded(last.recs))
        /\ \A j \in 1..Len(Recorded(last.recs)) :
              (\E id \in Referenced(Recorded(last.recs)[j]) : ~NodeExists(id)) =>
                  /\ j <= Len(SnapEvents(sink))
                  /\ SnapEvents(sink)[j].nodes = Clamp(Snap[Recorded(last.recs)[j]].nodes)
                  /\ SnapEvents(sink)[j].attrs = Clamp(Snap[Recorded(last.recs)[j]].attrs)

\* two chunks of a chain each held a record referencing an unresolvable id
C11_Witness ==
    /\ last.op = "flush"
    /\ Len(last.chain) >= 2
    /\ Len(last.recs) = 2
    /\ \E id \in Referenced(last.recs[1]) \cap Referenced(last.recs[2]) :
          /\ ~NodeExists(id)
          /\ id \notin last.cache0
          /\ LookupCount(id) = 1
          /\ id \in cache
    /\ \E i, j \in 1..Len(last.cursors) :
          i # j /\ last.cursors[i].nrec = 1 /\ last.cursors[j].nrec = 1
    /\ ret = 2

\* C12: a chain is consumed once. A flush that follows a flush of the same
\* head with no call in between returns 0, makes no sink call and no lookup,
\* and leaves the chunk and the cache as they were.
C12_SecondFlush ==
    (last.op = "flush" /\ last.prev = "flush") =>
        /\ ret = 0
        /\ sink = <<>>
        /\ last.looked = <<>>
        /\ last.chain = <<HeadChunk>>
        /\ chunks[HeadChunk] = last.before
        /\ cache = last.cache0
        /\ \A c \in ChunkIds : chunks[c].freed <= 1

\* the second of two flushes in a row, the first of which had delivered records
C12_Witness ==
    /\ last.op = "flush"
    /\ last.prev = "flush"
    /\ nflushes = 2
    /\ nsaves > 0
    /\ cache # {}
    /\ \E c \in ChunkIds : chunks[c].st = "deleted"

\* C13: the cache only grows. No call but flush changes the cache; flush
\* removes nothing from it, and after a flush the cache is the cache before
\* it united with the node ids and attribute ids of the clamped records of
\* the flushed chain.
C13_CacheGrows ==
    /\ last.op \in {"save", "nofit", "rawsave", "append", "reset", "info"} =>
          cache = last.cache0
    /\ last.op = "flush" =>
          /\ last.cache0 \subseteq cache
          /\ cache = last.cache0 \cup AllReferenced(last.recs)

\* a second flush added ids to a cache the first flush had filled, from a
\* chain whose successor chunk held a record
C13_Witness ==
    /\ last.op = "flush"
    /\ last.cache0 # {}
    /\ cache # last.cache0
    /\ Len(last.chain) >= 2
    /\ last.cursors[2].nrec > 0

RaceEstimate(s) == 20 + 10 * Len(RaceSnap[s].nodes) + 32 * Len(RaceSnap[s].attrs)

\* C14: the single-writer requirement. With two writers that each call fits
\* and then save_snapshot on one chunk, every save was admitted by its
\* writer's own fits, a save nobody else's save came before since that fits
\* stays within the capacity, and the position passes the capacity only
\* through a save whose fits answer another writer's save had made stale.
C14_StaleFits ==
    /\ \A w \in Writers : writers[w].pc \in {"fitted", "saved"} =>
          writers[w].fitpos + RaceEstimate(writers[w].snap) < chunks[HeadChunk].size
    /\ (last.op = "wsave" /\ ~writers[last.writer].stale) =>
          (~overrun /\ chunks[HeadChunk].pos <= chunks[HeadChunk].size)
    /\ overrun => (last.op = "wsave" /\ writers[last.writer].stale)

\* both writers were told the snapshot fits the empty chunk, both saved, and
\* the position is past the capacity
C14_Witness ==
    /\ chunks[HeadChunk].pos > chunks[HeadChunk].size
    /\ overrun
    /\ \A w \in Writers :
          writers[w].pc = "saved" /\ writers[w].fitpos = 0 /\ writers[w].rounds = 1
    /\ chunks[HeadChunk].nrec = 2

\* sums over the chunks of a chain
RECURSIVE SumSize(_, _)
SumSize(h, ch) == IF ch = <<>> THEN 0 ELSE h[Head(ch)].size + SumSize(h, Tail(ch))

RECURSIVE SumPos(_, _)
SumPos(h, ch) == IF ch = <<>> THEN 0 ELSE h[Head(ch)].pos + SumPos(h, Tail(ch))

\* C15: info. Called on a chunk, info returns the number of chunks reachable
\* from it through next, itself included, the sum of their capacities and
\* the sum of their positions, and changes no chunk; called on the head
\* right after a flush it returns {1, capacity of the head, 0}.
C15_Info ==
    last.op = "info" =>
        /\ chunks = last.h0
        /\ last.info.nchunks = Len(Chain(last.h0, last.chunk))
        /\ last.info.reserved = SumSize(last.h0, Chain(last.h0, last.chunk))
        /\ last.info.used = SumPos(last.h0, Chain(last.h0, last.chunk))
        /\ (last.prev = "flush" /\ last.chunk = HeadChunk) =>
              last.info = [nchunks |-> 1, reserved |-> chunks[HeadChunk].size, used |-> 0]

\* info on the head of a chain of three chunks of two capacities, two of
\* them holding records
C15_Witness ==
    /\ last.op = "info"
    /\ last.chunk = HeadChunk
    /\ last.info.nchunks = 3
    /\ Cardinality({c \in ChunkIds : chunks[c].pos > 0}) = 2
    /\ Cardinality({chunks[c].size : c \in ChunkIds}) = 2
    /\ last.info.used = SumPos(chunks, <<1, 2, 3>>)

\* info on the head right after a flush of a chain
C15_WitnessAfterFlush ==
    /\ last.op = "info"
    /\ last.prev = "flush"
    /\ last.chunk = HeadChunk
    /\ \E c \in ChunkIds : chunks[c].st = "deleted"
    /\ last.info.nchunks = 1

\* C16: append. Called on any chunk of a chain, append puts the new chunk
\* behind the chain's last chunk: the chunks before it keep their order,
\* positions, record counts and contents, the new chunk is the tail, and the
\* chain lists the chunks in the order of the append calls.
C16_Append ==
    /\ last.op = "append" =>
          /\ Chain(chunks, HeadChunk) = Append(last.chain, last.snap)
          /\ chunks[last.snap].next = 0
          /\ chunks[last.snap].pos = 0 /\ chunks[last.snap].nrec = 0
          /\ last.h0[last.snap].st = "unalloc"
          /\ \A c \in Range(last.chain) :
                chunks[c] = IF c = last.chain[Len(last.chain)]
                            THEN [last.h0[c] EXCEPT !.next = last.snap]
                            ELSE last.h0[c]
          /\ \A c \in ChunkIds \ (Range(last.chain) \cup {last.snap}) : chunks[c] = last.h0[c]
    /\ \A i, j \in 1..Len(Chain(chunks, HeadChunk)) :
          i < j => Chain(chunks, HeadChunk)[i] < Chain(chunks, HeadChunk)[j]

\* append was called on the head of a chain of two chunks that both hold records
C16_Witness ==
    /\ last.op = "append"
    /\ last.chunk = HeadChunk
    /\ Len(last.chain) = 2
    /\ \A c \in Range(last.chain) : chunks[c].nrec > 0
    /\ Chain(chunks, HeadChunk) = <<1, 2, 3>>

\* the bytes of a buffer are all zero
AllZero(data) == \A i \in 1..Len(data) : data[i] = 0

\* C17: reset. reset sets position and record count to 0 and clears the
\* buffer, leaves next and every other chunk as they were, and a flush
\* afterwards still delivers the records the successors hold.
C17_Reset ==
    last.op = "reset" =>
        /\ chunks[last.chunk].pos = 0
        /\ chunks[last.chunk].nrec = 0
        /\ AllZero(chunks[last.chunk].data)
        /\ chunks[last.chunk] = [last.h0[last.chunk] EXCEPT !.pos = 0, !.nrec = 0,
                                                            !.data = chunks[last.chunk].data]
        /\ \A c \in ChunkIds \ {last.chunk} : chunks[c] = last.h0[c]
        /\ Chain(chunks, HeadChunk) = last.chain
        /\ LET f == Flush(chunks, HeadChunk, cache, <<>>, <<>>)
               held == Recorded(ChainRecs(chunks, saved, HeadChunk))
           IN  /\ f.written = SumRecords([i \in 1..Len(last.chain) |->
                                 [nrec |-> IF last.chain[i] = last.chunk THEN 0
                                           ELSE last.h0[last.chain[i]].nrec]])
               /\ f.written = Len(held)
               /\ SnapEvents(f.out) = [j \in 1..Len(held) |-> ExpectedEv(held[j])]

\* the head of a chain was reset while it and its successor held records
C17_Witness ==
    /\ last.op = "reset"
    /\ last.chunk = HeadChunk
    /\ last.before.nrec > 0
    /\ chunks[HeadChunk].next # 0
    /\ chunks[chunks[HeadChunk].next].nrec > 0
    /\ chunks[chunks[HeadChunk].next].pos > 0

\* the sink's call i is the path emission of id
IsPath(out, i, id) == out[i].k = "path" /\ out[i].id = id

\* C18: node before snapshot. In the sink's call sequence of a flush, every
\* snapshot-level record comes after the path emission of each resolvable id
\* it references that was not in the cache when the flush started, and no
\* path of an id is emitted after a snapshot-level record that references it.
C18_NodeBeforeSnapshot ==
    last.op = "flush" =>
        \A i \in 1..Len(sink) :
            sink[i].k = "snap" =>
                \A id \in Range(sink[i].nodes) \cup Range(sink[i].attrs) :
                    /\ (NodeExists(id) /\ id \notin last.cache0) =>
                          \E k \in 1..(i - 1) : IsPath(sink, k, id)
                    /\ \A k \in (i + 1)..Len(sink) : ~IsPath(sink, k, id)

\* a later record's new ids were written between two snapshot-level records
C18_Witness ==
    /\ last.op = "flush"
    /\ \E i, k, m \in 1..Len(sink) :
          /\ i < k /\ k < m
          /\ sink[i].k = "snap"
          /\ sink[k].k = "path"
          /\ sink[m].k = "snap"
          /\ sink[k].id \in Range(sink[m].nodes) \cup Range(sink[m].attrs)
          /\ \E id \in Range(sink[m].nodes) : id \in Range(sink[i].nodes)

\* the records of a history, as the sink should see them
Events(ord) == [i \in 1..Len(ord) |-> ExpectedEv(ord[i].snap)]

\* the records of a history chunk by chunk along a chain, each chunk's in call order
RECURSIVE ByChain(_, _)
ByChain(ch, ord) ==
    IF ch = <<>> THEN <<>>
    ELSE SelectSeq(ord, LAMBDA o : o.chunk = Head(ch)) \o ByChain(Tail(ch), ord)

\* every record went into a chunk at or behind the chunk of the record before it
SavedAlongChain(ch, ord) ==
    \A i, j \in 1..Len(ord) :
        i < j => (CHOOSE k \in 1..Len(ch) : ch[k] = ord[i].chunk)
                    <= (CHOOSE k \in 1..Len(ch) : ch[k] = ord[j].chunk)

\* C19 as stated: the sink sees the snapshot-level records of a chain built
\* by fits, save_snapshot and append in the order the snapshots were saved.
C19_AsStated ==
    last.op = "flush" => SnapEvents(sink) = Events(last.order)

\* C19: emission order. flush emits the records of a chunk in the order they
\* were saved into it, and all records of a chunk before any record of its
\* successor; this is the order the snapshots were saved in when no snapshot
\* was saved into a chunk in front of the chunk of an earlier one.
C19_EmissionOrder ==
    last.op = "flush" =>
        /\ SnapEvents(sink) = Events(ByChain(last.chain, last.order))
        /\ SavedAlongChain(last.chain, last.order) => SnapEvents(sink) = Events(last.order)

\* a snapshot was saved into the second chunk and then a different one into
\* the head; the sink got the head's record first
C19_Witness ==
    /\ last.op = "flush"
    /\ Len(last.order) = 2
    /\ last.order[1].chunk # HeadChunk
    /\ last.order[2].chunk = HeadChunk
    /\ last.order[1].snap # last.order[2].snap
    /\ SnapEvents(sink) = <<ExpectedEv(last.order[2].snap), ExpectedEv(last.order[1].snap)>>

\* two different snapshots saved one after the other into one chunk
C19_WitnessInOrder ==
    /\ last.op = "flush"
    /\ Len(last.order) = 2
    /\ last.order[1].chunk = last.order[2].chunk
    /\ last.order[1].snap # last.order[2].snap
    /\ SnapEvents(sink) = Events(last.order)

\* a thread waits for a mutex another thread holds
Blocked(t) ==
    \/ textlog.pc[t] \in {"ca_lock", "ps_lock"} /\ textlog.trigger_attr_mutex # 0
    \/ textlog.pc[t] = "ps_lock_stream" /\ textlog.stream_mutex # 0

\* C20: the text log under concurrent callbacks. No thread holds
\* trigger_attr_mutex and stream_mutex at once; whenever a thread is inside
\* a callback some thread inside a callback can take its next step;
\* trigger_attr_map is only touched by the holder of trigger_attr_mutex; and
\* the pieces of a line reach the stream under stream_mutex, one after the
\* other, with no piece of another line between them.
C20_TextLog ==
    /\ \A t \in Threads :
          ~(textlog.trigger_attr_mutex = t /\ textlog.stream_mutex = t)
    /\ (\E t \in Threads : textlog.pc[t] # "idle") =>
          (\E t \in Threads : textlog.pc[t] # "idle" /\ ~Blocked(t))
    /\ ~textlog.unguarded
    /\ \A t \in Threads :
          /\ textlog.pc[t] \in {"ca_insert", "ca_unlock", "ps_find", "ps_scope_end"} =>
                textlog.trigger_attr_mutex = t
          /\ textlog.pc[t] \in {"ps_write", "ps_return"} => textlog.stream_mutex = t
          /\ textlog.pc[t] \in {"ps_check", "ps_lock_stream", "ps_write", "ps_return"} =>
                textlog.trigger_attr_mutex # t
    /\ \A i \in 1..Len(textlog.stream) :
          LET e == textlog.stream[i]
          IN  /\ e.held
              /\ e.part > 1 =>
                    (i > 1 /\ textlog.stream[i - 1] = [e EXCEPT !.part = e.part - 1])
              /\ e.part < LineParts =>
                    IF i < Len(textlog.stream)
                    THEN textlog.stream[i + 1] = [e EXCEPT !.part = e.part + 1]
                    ELSE textlog.pc[e.thread] = "ps_write" /\ textlog.stream_mutex = e.thread

\* one thread is in the middle of its line while the other, having written a
\* line before, is inside create_attribute_cb with the lookup lock
C20_Witness ==
    \E t, o \in Threads :
        /\ t # o
        /\ textlog.pc[t] = "ps_write"
        /\ textlog.written[t] = 1
        /\ textlog.pc[o] = "ca_insert"
        /\ textlog.trigger_attr_mutex = o
        /\ textlog.stream_mutex = t
        /\ \E i \in 1..Len(textlog.stream) : textlog.stream[i].thread = o

\* one thread waits for stream_mutex while the other is in the middle of its line
C20_WitnessWaiting ==
    \E t, o \in Threads :
        /\ t # o
        /\ textlog.pc[t] = "ps_write"
        /\ textlog.written[t] = 1
        /\ textlog.pc[o] = "ps_lock_stream"

=============================================================================
